---- MODULE Spec2Model ----
(***************************************************************************)
(* Model of scripts/Trade_Analyser/trade_analyser.py: generate_analysis,   *)
(* the load -> filter -> metrics -> weekly aggregation -> render -> write  *)
(* pipeline.  Money values are whole units (integers); quotients are kept  *)
(* as exact fractions [num, den], with a flag for positive infinity.       *)
(* A nullable cell is <<>> (blank / NaN / NaT) or <<v>>.                   *)
(***************************************************************************)
EXTENDS Integers, Sequences, FiniteSets, TLC

VARIABLES pc, input, outBefore, outFile, df, trades, metrics, weekly_stats,
          html_content, stdout, exc, ran

vars == <<pc, input, outBefore, outFile, df, trades, metrics, weekly_stats,
          html_content, stdout, exc, ran>>

\* Largest number of data rows of an input CSV.
MaxRows == 2

Null == <<>>

\* ------------------------------------------------------------------ input
\* Cells of the 'Update Time' column: a parseable date, a blank cell, or
\* text that pd.to_datetime rejects.
Date(y, m, d) == [kind |-> "date", y |-> y, m |-> m, d |-> d]
Blank == [kind |-> "blank", y |-> 0, m |-> 0, d |-> 0]
BadTime == [kind |-> "bad", y |-> 0, m |-> 0, d |-> 0]

Dates == { Date(2024, 1, 2), Date(2024, 6, 3), Date(2024, 12, 30), Date(2025, 1, 6) }

TradeRows == [Symbol : {"EURUSD"}, Profit : {<<-1>>, <<1>>},
              Commission : {Null, <<-1>>}, UpdateTime : Dates \cup {Blank, BadTime}]

PendingRows == [Symbol : {"EURUSD"}, Profit : {Null},
                Commission : {Null}, UpdateTime : {Date(2024, 6, 3)}]

OtherSymbolRows == [Symbol : {"XAGUSD", "xagusd"}, Profit : {Null, <<1>>},
                    Commission : {Null}, UpdateTime : {Date(2024, 1, 2)}]

CsvRows == TradeRows \cup PendingRows \cup OtherSymbolRows

RECURSIVE TablesUpTo(_)
TablesUpTo(n) ==
    IF n = 0 THEN { <<>> }
    ELSE LET shorter == TablesUpTo(n - 1)
         IN shorter \cup { Append(t, r) : t \in { s \in shorter : Len(s) = n - 1 }, r \in CsvRows }

\* What the input path holds: nothing, a file read_csv cannot parse, a CSV
\* lacking a required column, or a CSV with all required columns.
InputKinds == {"missing", "unparseable", "no_columns", "table"}

\* ---------------------------------------------------------------- messages
MsgNotFound == "Error: File not found."
MsgNoData == "No valid trade data found after filtering."
MsgComplete == "Analysis complete. Dashboard saved."
MsgUnexpected == "An unexpected error occurred"

\* ------------------------------------------------------------ pure helpers
RECURSIVE SumNet(_)
SumNet(s) == IF s = <<>> THEN 0 ELSE Head(s).NetProfit + SumNet(Tail(s))

RECURSIVE MaxNet(_)
MaxNet(s) ==
    IF Len(s) = 0 THEN 0
    ELSE IF Len(s) = 1 THEN Head(s).NetProfit
    ELSE LET m == MaxNet(Tail(s)) IN IF Head(s).NetProfit > m THEN Head(s).NetProfit ELSE m

RECURSIVE MinNet(_)
MinNet(s) ==
    IF Len(s) = 0 THEN 0
    ELSE IF Len(s) = 1 THEN Head(s).NetProfit
    ELSE LET m == MinNet(Tail(s)) IN IF Head(s).NetProfit < m THEN Head(s).NetProfit ELSE m

Abs(x) == IF x < 0 THEN -x ELSE x

\* A float result: an exact fraction num/den, or np.inf.
Inf == [inf |-> TRUE, num |-> 0, den |-> 1]
Frac(n, d) == [inf |-> FALSE, num |-> n, den |-> d]

\* ------------------------------------------------------------- the filter
KeepRow_NoSymbolTest(r) == r.Profit # Null

\* df[df['Profit'].notnull()] and then trades[trades['Symbol'] != 'XAGUSD']
KeepRow(r) == r.Profit # Null /\ r.Symbol # "XAGUSD"

IsEmpty_Raw(t) == Len(df) = 0

\* trades.empty
IsEmpty(t) == Len(t) = 0

\* ------------------------------------------------------ net profit columns
\* trades['Commission'].fillna(0)
FillNa(c) == IF c = Null THEN 0 ELSE c[1]

\* pd.to_datetime on one cell: a blank cell becomes NaT, a date stays.
ToDatetime(t) == IF t.kind = "blank" THEN Null ELSE <<t>>

WithNetProfit(r) ==
    [idx |-> r.idx, Symbol |-> r.Symbol, Profit |-> r.Profit[1],
     Commission |-> FillNa(r.Commission),
     UpdateTime |-> ToDatetime(r.UpdateTime),
     NetProfit |-> r.Profit[1] + FillNa(r.Commission),
     Year |-> Null, Week |-> Null]

\* ----------------------------------------------------------------- metrics
IsWin_ZeroWins(net) == net >= 0

\* trades['Net Profit'] > 0
IsWin(net) == net > 0

\* trades['Net Profit'] <= 0
IsLoss(net) == net <= 0

WinRows(t) == SelectSeq(t, LAMBDA r : IsWin(r.NetProfit))
LossRows(t) == SelectSeq(t, LAMBDA r : IsLoss(r.NetProfit))

Winrate(nwins, total) == IF total > 0 THEN Frac(nwins * 100, total) ELSE Frac(0, 1)

ProfitFactor_TestsGrossProfit(gross_profit, gross_loss) ==
    IF gross_profit # 0 THEN Frac(gross_profit, gross_loss) ELSE Inf

\* gross_profit / gross_loss if gross_loss != 0 else np.inf
ProfitFactor(gross_profit, gross_loss) ==
    IF gross_loss # 0 THEN Frac(gross_profit, gross_loss) ELSE Inf

NoMetrics ==
    [total_trades |-> 0, avg_pl |-> Frac(0, 1), nwins |-> 0, nlosses |-> 0,
     winrate |-> Frac(0, 1), gross_profit |-> 0, gross_loss |-> 0,
     profit_factor |-> Frac(0, 1), max_profit |-> 0, max_loss |-> 0]

ComputeMetrics(t) ==
    LET total_trades == Len(t)
        wins == WinRows(t)
        losses == LossRows(t)
        gross_profit == SumNet(wins)
        gross_loss == Abs(SumNet(losses))
    IN [total_trades |-> total_trades,
        avg_pl |-> Frac(SumNet(t), total_trades),
        nwins |-> Len(wins), nlosses |-> Len(losses),
        winrate |-> Winrate(Len(wins), total_trades),
        gross_profit |-> gross_profit, gross_loss |-> gross_loss,
        profit_factor |-> ProfitFactor(gross_profit, gross_loss),
        max_profit |-> MaxNet(t), max_loss |-> MinNet(t)]

\* ------------------------------------------------- calendar (dt accessors)
IsLeap(y) == (y % 4 = 0) /\ ((y % 100 # 0) \/ (y % 400 = 0))

DaysInMonth(y, m) ==
    IF m = 2 THEN (IF IsLeap(y) THEN 29 ELSE 28)
    ELSE IF m \in {4, 6, 9, 11} THEN 30 ELSE 31

RECURSIVE DaysBeforeMonth(_, _)
DaysBeforeMonth(y, m) ==
    IF m = 1 THEN 0 ELSE DaysBeforeMonth(y, m - 1) + DaysInMonth(y, m - 1)

DaysBeforeYear(y) ==
    LET p == y - 1 IN p * 365 + (p \div 4) - (p \div 100) + (p \div 400)

\* Proleptic Gregorian ordinal of a date; 0001-01-01 is day 1, a Monday.
Ordinal(t) == DaysBeforeYear(t.y) + DaysBeforeMonth(t.y, t.m) + t.d

\* Monday is 0.
Weekday(ord) == (ord + 6) % 7

\* Ordinal of the Monday that starts ISO week 1 of year y (the week that
\* holds the year's first Thursday).
IsoWeek1Monday(y) ==
    LET firstday == DaysBeforeYear(y) + 1
        firstweekday == Weekday(firstday)
        monday == firstday - firstweekday
    IN IF firstweekday > 3 THEN monday + 7 ELSE monday

\* .dt.isocalendar(): ISO year and ISO week of a date.
IsoCalendar(t) ==
    LET today == Ordinal(t)
        week == (today - IsoWeek1Monday(t.y)) \div 7
    IN IF today < IsoWeek1Monday(t.y)
       THEN [year |-> t.y - 1, week |-> ((today - IsoWeek1Monday(t.y - 1)) \div 7) + 1]
       ELSE IF week >= 52 /\ today >= IsoWeek1Monday(t.y + 1)
       THEN [year |-> t.y + 1, week |-> 1]
       ELSE [year |-> t.y, week |-> week + 1]

\* trades['Update Time'].dt.year: the calendar year, NaN for NaT.
DtYear(ts) == IF ts = Null THEN Null ELSE <<ts[1].y>>

\* trades['Update Time'].dt.isocalendar().week: <NA> for NaT.
DtIsoWeek(ts) == IF ts = Null THEN Null ELSE <<IsoCalendar(ts[1]).week>>

WithYearWeek(r) == [r EXCEPT !.Year = DtYear(r.UpdateTime), !.Week = DtIsoWeek(r.UpdateTime)]

\* -------------------------------------------------------- weekly aggregation
\* groupby(['Year', 'Week']) drops the rows whose key holds a missing value.
GroupKeys(t) ==
    { <<t[i].Year[1], t[i].Week[1]>> : i \in { j \in DOMAIN t : t[j].Year # Null /\ t[j].Week # Null } }

InGroup(r, k) == r.Year = <<k[1]>> /\ r.Week = <<k[2]>>

\* agg(Trade_Count = count, Weekly_Profit = sum) of one group
Aggregate(t, k) ==
    LET rows == SelectSeq(t, LAMBDA r : InGroup(r, k))
    IN [Year |-> k[1], Week |-> k[2], Trade_Count |-> Len(rows), Weekly_Profit |-> SumNet(rows)]

KeyLess(a, b) == a[1] < b[1] \/ (a[1] = b[1] /\ a[2] < b[2])

\* sort_values(['Year', 'Week'], ascending=False)
RECURSIVE SortDescending(_)
SortDescending(keys) ==
    IF keys = {} THEN <<>>
    ELSE LET top == CHOOSE k \in keys : \A o \in keys : ~KeyLess(k, o)
         IN <<top>> \o SortDescending(keys \ {top})

WeeklyStats(t) ==
    LET order == SortDescending(GroupKeys(t))
    IN [i \in 1..Len(order) |-> Aggregate(t, order[i])]

\* ------------------------------------------------------------------ render
\* Nearest integer to n/d (d > 0), ties to even.
RoundHalfEven(n, d) ==
    LET q == n \div d
        r == n - q * d
    IN IF 2 * r < d THEN q
       ELSE IF 2 * r > d THEN q + 1
       ELSE IF q % 2 = 0 THEN q ELSE q + 1

\* format(x, '.2f'): "inf" for np.inf, else the value in hundredths.
Format2f(x) ==
    IF x.inf THEN [text |-> "inf", hundredths |-> 0]
    ELSE [text |-> "fixed", hundredths |-> RoundHalfEven(100 * x.num, x.den)]

\* One week-box of the calendar.
WeekBox(r) ==
    [Week |-> r.Week, Year |-> r.Year, Trades |-> r.Trade_Count,
     class |-> IF r.Weekly_Profit >= 0 THEN "win" ELSE "loss",
     value |-> Format2f(Frac(r.Weekly_Profit, 1))]

NoHtml == [built |-> FALSE]

BuildHtml(m, w) ==
    [built |-> TRUE,
     kpi |-> [trades |-> m.total_trades, avg_pl |-> Format2f(m.avg_pl),
              winrate |-> Format2f(m.winrate), profit_factor |-> Format2f(m.profit_factor)],
     summary |-> [total_trades |-> m.total_trades,
                  max_profit |-> [class |-> "win", value |-> Format2f(Frac(m.max_profit, 1))],
                  max_loss |-> [class |-> "loss", value |-> Format2f(Frac(m.max_loss, 1))]],
     calendar |-> [i \in 1..Len(w) |-> WeekBox(w[i])]]

\* ------------------------------------------------------------- exceptions
Catches_OnlyOSError(e) == e = "OSError"

\* except Exception: every error the pipeline raises derives from Exception.
Catches(e) == e \in {"ParserError", "KeyError", "ValueError", "OSError"}

\* ------------------------------------------------------------------- state
\* read_csv gives the rows a RangeIndex 0..n-1, which filtering preserves.
Indexed(t) ==
    [i \in 1..Len(t) |->
        [idx |-> i - 1, Symbol |-> t[i].Symbol, Profit |-> t[i].Profit,
         Commission |-> t[i].Commission, UpdateTime |-> t[i].UpdateTime]]

Init ==
    /\ pc = "exists"
    /\ input \in InputKinds
    /\ outBefore \in {"absent", "previous"}
    /\ outFile = outBefore
    /\ df = <<>>
    /\ trades = <<>>
    /\ metrics = NoMetrics
    /\ weekly_stats = <<>>
    /\ html_content = NoHtml
    /\ stdout = <<>>
    /\ exc = "none"
    /\ ran = <<>>

\* if not os.path.exists(input_csv): print(...); return
CheckExists ==
    /\ pc = "exists"
    /\ ran' = Append(ran, "exists")
    /\ IF input = "missing"
       THEN /\ stdout' = Append(stdout, MsgNotFound)
            /\ pc' = "done"
       ELSE /\ stdout' = stdout
            /\ pc' = "read_csv"
    /\ UNCHANGED <<input, outBefore, outFile, df, trades, metrics, weekly_stats, html_content, exc>>

\* df = pd.read_csv(input_csv)
ReadCsv ==
    /\ pc = "read_csv"
    /\ ran' = Append(ran, "read_csv")
    /\ IF input = "unparseable"
       THEN /\ exc' = "ParserError"
            /\ pc' = "raised"
            /\ df' = df
       ELSE /\ exc' = exc
            /\ pc' = "filter"
            /\ IF input = "no_columns"
               THEN df' = <<>>
               ELSE \E t \in TablesUpTo(MaxRows) : df' = Indexed(t)
    /\ UNCHANGED <<input, outBefore, outFile, trades, metrics, weekly_stats, html_content, stdout>>

\* The Filter stage and its early exit on an empty result.
Filter ==
    /\ pc = "filter"
    /\ ran' = Append(ran, "filter")
    /\ IF input = "no_columns"
       THEN /\ exc' = "KeyError"
            /\ pc' = "raised"
            /\ UNCHANGED <<trades, stdout>>
       ELSE /\ exc' = exc
            /\ trades' = SelectSeq(df, KeepRow)
            /\ IF IsEmpty(trades')
               THEN /\ stdout' = Append(stdout, MsgNoData)
                    /\ pc' = "done"
               ELSE /\ stdout' = stdout
                    /\ pc' = "metrics"
    /\ UNCHANGED <<input, outBefore, outFile, df, metrics, weekly_stats, html_content>>

\* Net profit columns and the Metric Calculator stage.
Metrics ==
    /\ pc = "metrics"
    /\ ran' = Append(ran, "metrics")
    /\ IF \E i \in DOMAIN trades : trades[i].UpdateTime.kind = "bad"
       THEN /\ exc' = "ValueError"
            /\ pc' = "raised"
            /\ UNCHANGED <<trades, metrics>>
       ELSE /\ exc' = exc
            /\ trades' = [i \in DOMAIN trades |-> WithNetProfit(trades[i])]
            /\ metrics' = ComputeMetrics(trades')
            /\ pc' = "weekly"
    /\ UNCHANGED <<input, outBefore, outFile, df, weekly_stats, html_content, stdout>>

\* The Weekly Aggregator stage.
Weekly ==
    /\ pc = "weekly"
    /\ ran' = Append(ran, "weekly")
    /\ trades' = [i \in DOMAIN trades |-> WithYearWeek(trades[i])]
    /\ weekly_stats' = WeeklyStats(trades')
    /\ pc' = "render"
    /\ UNCHANGED <<input, outBefore, outFile, df, metrics, html_content, stdout, exc>>

\* html_content = f"""..."""
Render ==
    /\ pc = "render"
    /\ ran' = Append(ran, "render")
    /\ html_content' = BuildHtml(metrics, weekly_stats)
    /\ pc' = "write"
    /\ UNCHANGED <<input, outBefore, outFile, df, trades, metrics, weekly_stats, stdout, exc>>

\* with open(output_html, "w") as f: f.write(html_content); print(...)
\* open fails and leaves the path alone, or open truncates the path and the
\* write (or the flush on close) fails, or the report is written.
Write ==
    /\ pc = "write"
    /\ ran' = Append(ran, "write")
    /\ \E outcome \in {"open_fails", "write_fails", "written"} :
         IF outcome = "open_fails"
         THEN /\ outFile' = outFile
              /\ exc' = "OSError"
              /\ pc' = "raised"
              /\ stdout' = stdout
         ELSE IF outcome = "write_fails"
         THEN /\ outFile' = "truncated"
              /\ exc' = "OSError"
              /\ pc' = "raised"
              /\ stdout' = stdout
         ELSE /\ outFile' = "report"
              /\ exc' = exc
              /\ pc' = "done"
              /\ stdout' = Append(stdout, MsgComplete)
    /\ UNCHANGED <<input, outBefore, df, trades, metrics, weekly_stats, html_content>>

\* except Exception as e: print(...)
Except ==
    /\ pc = "raised"
    /\ IF Catches(exc)
       THEN /\ stdout' = Append(stdout, MsgUnexpected)
            /\ pc' = "done"
       ELSE /\ stdout' = stdout
            /\ pc' = "uncaught"
    /\ UNCHANGED <<input, outBefore, outFile, df, trades, metrics, weekly_stats, html_content, exc, ran>>

Next == CheckExists \/ ReadCsv \/ Filter \/ Metrics \/ Weekly \/ Render \/ Write \/ Except

Spec == Init /\ [][Next]_vars

\* ------------------------------------------------------------- properties
Did(step) == \E i \in DOMAIN ran : ran[i] = step

\* The net profit columns exist and the metrics were computed.
MetricsDone == Did("metrics") /\ exc # "ValueError"

RECURSIVE SetSum(_, _)
SetSum(S, f) ==
    IF S = {} THEN 0
    ELSE LET x == CHOOSE y \in S : TRUE IN f[x] + SetSum(S \ {x}, f)

Net == [i \in DOMAIN trades |-> trades[i].NetProfit]
Winners == { i \in DOMAIN trades : Net[i] > 0 }
Losers == { i \in DOMAIN trades : Net[i] <= 0 }

Failed == pc = "raised" \/ (pc = "done" /\ stdout # <<MsgComplete>>)

\* C1: after a failed run the output path holds what it held before the run
\* (absent, or the previous file untouched): never a truncated or partly
\* written report.
C1_NoPartialOutputOnFailure == Failed => outFile = outBefore

\* Position of a control point in the pipeline.
Rank(p) ==
    CASE p = "exists" -> 0 [] p = "read_csv" -> 1 [] p = "filter" -> 2
      [] p = "metrics" -> 3 [] p = "weekly" -> 4 [] p = "render" -> 5
      [] p = "write" -> 6 [] p = "raised" -> 7 [] OTHER -> 8

\* C2: every run terminates (each step moves control strictly forward through
\* the finitely many control points, and the only point where no step is
\* possible is the end of the run) with exactly one message, the completion
\* message exactly when the report was written; no error leaves the pipeline
\* uncaught; read_csv is attempted only after the existence check passed.
C2_TerminatesWithOneOutcome ==
    /\ [][Rank(pc') > Rank(pc)]_vars
    /\ [](pc # "done" => ENABLED Next)
    /\ [](pc # "uncaught")
    /\ [](pc = "done" =>
            /\ Len(stdout) = 1
            /\ stdout[1] \in {MsgComplete, MsgNotFound, MsgNoData, MsgUnexpected}
            /\ (stdout[1] = MsgComplete <=> outFile = "report")
            /\ (stdout[1] = MsgUnexpected <=> exc # "none"))
    /\ [](\A i \in DOMAIN ran :
            ran[i] = "read_csv" => (input # "missing" /\ \E j \in 1..(i - 1) : ran[j] = "exists"))

C2_Witness ==
    /\ pc = "done"
    /\ exc = "OSError"
    /\ stdout = <<MsgUnexpected>>

NoRowSurvives ==
    /\ Did("filter")
    /\ input = "table"
    /\ \A i \in DOMAIN df : df[i].Profit = Null \/ df[i].Symbol = "XAGUSD"

\* C3: when no row survives the filter the run ends right after the Filter
\* stage with the "no valid trade data" message and the output path
\* untouched; the later stages are only reached with totalTrades > 0.
C3_EmptyHaltsAfterFilter ==
    /\ NoRowSurvives =>
         /\ pc = "done"
         /\ stdout = <<MsgNoData>>
         /\ outFile = outBefore
         /\ ran = <<"exists", "read_csv", "filter">>
         /\ metrics = NoMetrics /\ weekly_stats = <<>> /\ html_content = NoHtml
    /\ (pc \in {"metrics", "weekly", "render", "write"} \/ Did("metrics")) => Len(trades) > 0
    /\ MetricsDone => metrics.total_trades > 0 /\ metrics.avg_pl.den > 0 /\ metrics.winrate.den > 0

C3_Witness ==
    /\ NoRowSurvives
    /\ Len(df) = MaxRows
    /\ pc = "done"
    /\ \E i \in DOMAIN df : df[i].Symbol = "XAGUSD" /\ df[i].Profit # Null

Excluded(i) == df[i + 1].Profit = Null \/ df[i + 1].Symbol = "XAGUSD"
RetainedIdx == { trades[i].idx : i \in DOMAIN trades }

\* C4: the TradeSet holds exactly the input rows that have a Profit and whose
\* Symbol is not the exact string "XAGUSD", in input order; the metrics and
\* the weekly buckets count no other row.
C4_FilterExact ==
    (Did("filter") /\ input = "table") =>
        /\ \A i \in 0..(Len(df) - 1) : (i \in RetainedIdx) <=> ~Excluded(i)
        /\ Cardinality(RetainedIdx) = Len(trades)
        /\ \A i, j \in DOMAIN trades : i < j => trades[i].idx < trades[j].idx
        /\ \A i \in DOMAIN trades : trades[i].Symbol = df[trades[i].idx + 1].Symbol
        /\ MetricsDone =>
             /\ metrics.total_trades = Cardinality({ i \in 0..(Len(df) - 1) : ~Excluded(i) })
             /\ \A i \in DOMAIN trades : trades[i].Profit = df[trades[i].idx + 1].Profit[1]
        /\ \A b \in DOMAIN weekly_stats :
             weekly_stats[b].Trade_Count <= Cardinality({ i \in 0..(Len(df) - 1) : ~Excluded(i) })

C4_Witness ==
    /\ pc = "done"
    /\ outFile = "report"
    /\ \E i \in DOMAIN df : df[i].Symbol = "XAGUSD" /\ df[i].Profit # Null
    /\ \E i \in DOMAIN trades : trades[i].Symbol = "xagusd"

BucketsOf(i) ==
    { b \in DOMAIN weekly_stats :
        /\ trades[i].Year = <<weekly_stats[b].Year>>
        /\ trades[i].Week = <<weekly_stats[b].Week>> }

\* C5: the weekly buckets partition the TradeSet: every retained trade lies in
\* exactly one bucket, the bucket counts sum to totalTrades and the bucket
\* profits sum to the sum of netProfit.
C5_BucketsPartitionTrades ==
    Did("weekly") =>
        /\ \A i \in DOMAIN trades : Cardinality(BucketsOf(i)) = 1
        /\ SetSum(DOMAIN weekly_stats, [b \in DOMAIN weekly_stats |-> weekly_stats[b].Trade_Count])
             = metrics.total_trades
        /\ SetSum(DOMAIN weekly_stats, [b \in DOMAIN weekly_stats |-> weekly_stats[b].Weekly_Profit])
             = SetSum(DOMAIN trades, Net)

Dated == { i \in DOMAIN trades : trades[i].UpdateTime # Null }
Day(i) == Ordinal(trades[i].UpdateTime[1])

\* Ordinal of the Monday that starts the ISO week of trade i.
WeekStart(i) == Day(i) - ((Day(i) - 1) % 7)

\* C6: two trades fall in the same weekly bucket exactly when their update
\* times lie in the same ISO week.
C6_SameBucketIffSameIsoWeek ==
    Did("weekly") =>
        \A i, j \in Dated : (BucketsOf(i) = BucketsOf(j)) <=> (WeekStart(i) = WeekStart(j))

\* C7: the rendered week cards have pairwise distinct keys, are sorted
\* strictly descending by (year, week), and are most recent first: every
\* trade of an earlier card is later than every trade of a later card.
C7_MostRecentWeekFirst ==
    Did("render") =>
        \A a, b \in DOMAIN html_content.calendar :
            a < b =>
                /\ KeyLess(<<html_content.calendar[b].Year, html_content.calendar[b].Week>>,
                           <<html_content.calendar[a].Year, html_content.calendar[a].Week>>)
                /\ \A i, j \in Dated : (a \in BucketsOf(i) /\ b \in BucketsOf(j)) => Day(i) > Day(j)

GrossProfit == SetSum(Winners, Net)
GrossLoss == Abs(SetSum(Losers, Net))

\* C8: profitFactor is +infinity exactly when grossLoss = 0 and otherwise is
\* grossProfit / grossLoss; the infinite value is rendered as "inf" without
\* raising, so the run still reaches the write.
C8_ProfitFactor ==
    MetricsDone =>
        /\ metrics.gross_profit = GrossProfit
        /\ metrics.gross_loss = GrossLoss
        /\ metrics.profit_factor.inf <=> (GrossLoss = 0)
        /\ ~metrics.profit_factor.inf =>
             /\ metrics.profit_factor.den # 0
             /\ metrics.profit_factor.num * GrossLoss = GrossProfit * metrics.profit_factor.den
        /\ (Did("render") /\ GrossLoss = 0) =>
             /\ html_content.kpi.profit_factor.text = "inf"
             /\ exc \in {"none", "OSError"}
             /\ Did("write") \/ pc = "write"

C8_Witness ==
    /\ pc = "done"
    /\ outFile = "report"
    /\ metrics.profit_factor.inf
    /\ \E i \in DOMAIN trades : Net[i] = 0
    /\ \E i \in DOMAIN trades : Net[i] > 0

\* C9: wins (netProfit > 0) and losses (netProfit <= 0) partition the
\* TradeSet, and winRate = count(wins) / totalTrades * 100 lies in [0, 100],
\* is 100 only when every trade wins and 0 only when none does.
C9_WinRate ==
    MetricsDone =>
        /\ metrics.total_trades = Len(trades) /\ metrics.total_trades > 0
        /\ metrics.nwins = Cardinality(Winners)
        /\ metrics.nlosses = Cardinality(Losers)
        /\ metrics.nwins + metrics.nlosses = metrics.total_trades
        /\ metrics.winrate.den > 0 /\ ~metrics.winrate.inf
        /\ metrics.winrate.num * metrics.total_trades = 100 * Cardinality(Winners) * metrics.winrate.den
        /\ 0 <= metrics.winrate.num /\ metrics.winrate.num <= 100 * metrics.winrate.den
        /\ (metrics.winrate.num = 100 * metrics.winrate.den) <=> (\A i \in DOMAIN trades : Net[i] > 0)
        /\ (metrics.winrate.num = 0) <=> (\A i \in DOMAIN trades : ~(Net[i] > 0))

C9_Witness ==
    /\ MetricsDone
    /\ Len(trades) = MaxRows
    /\ \E i \in DOMAIN trades : Net[i] = 0
    /\ \E i \in DOMAIN trades : Net[i] > 0

SignTag(v) == IF v > 0 THEN "win" ELSE "loss"

\* C10: every profit/loss value of the report is tagged by its own sign:
\* "win" when positive, "loss" when zero or negative.
C10_TaggedBySign ==
    Did("render") =>
        /\ html_content.summary.max_profit.class = SignTag(metrics.max_profit)
        /\ html_content.summary.max_loss.class = SignTag(metrics.max_loss)
        /\ \A b \in DOMAIN html_content.calendar :
             html_content.calendar[b].class = SignTag(weekly_stats[b].Weekly_Profit)

====
